---------------------------- MODULE Spec2Model ----------------------------
(***************************************************************************)
(* A model of three components of BusTub:                                  *)
(*   - LRUKReplacer       (src/src/buffer/lru_k_replacer.cpp)              *)
(*   - BufferPoolManager  (src/src/buffer/buffer_pool_manager.cpp)         *)
(*   - Trie               (src/src/primer/trie.cpp)                        *)
(*                                                                         *)
(* Five specifications share the variables:                                *)
(*   Spec      the buffer pool manager driving its own replacer            *)
(*   SpecPins  the same, with callers that keep the handles they are given *)
(*   SpecThreads  the same, called by several threads                      *)
(*   SpecLRUK  the replacer called directly                                *)
(*   SpecTrie  the copy-on-write trie                                      *)
(* Every public operation runs under its component's latch from its first  *)
(* to its last access, so one operation is one atomic action.              *)
(***************************************************************************)
EXTENDS Integers, Sequences, FiniteSets, TLC

VARIABLES
    pages,          \* pages_[f]: [page_id, pin_count, is_dirty, data]
    page_table,     \* page_table_: page id -> frame id
    free_list,      \* free_list_: sequence of frame ids
    next_page_id,   \* next_page_id_
    replacer,       \* the LRUKReplacer object (see NewReplacer)
    fatal,          \* the process has ended in a failed assertion / ENSURE
    last,           \* the last call: operation, arguments, return value, disk requests
    dirtied,        \* observer: frame -> its page was unpinned dirty since loaded / flushed
    accessed,       \* observer: tracked frame -> every timestamp recorded for it
    handles,        \* observer: <<page, frame>> -> handles returned and not yet unpinned
    threads,        \* latch_ and each calling thread's position and locals
    heap,           \* trie nodes ever allocated, node id = index
    roots,          \* the Trie objects made so far: root node id, 0 = nullptr
    tlast           \* the last trie call

vars == <<pages, page_table, free_list, next_page_id, replacer, fatal, last,
          dirtied, accessed, handles, threads, heap, roots, tlast>>

bpmVars == <<pages, page_table, free_list, next_page_id, replacer>>
trieVars == <<heap, roots, tlast>>

(***************************************************************************)
(* Bounds                                                                  *)
(***************************************************************************)
NFrames == 2        \* pool_size of the buffer pool manager
MaxPageId == 2      \* NewPage is called while next_page_id_ <= MaxPageId
MaxTime == 3        \* RecordAccess is called while current_timestamp_ < MaxTime
MaxHandles == 2     \* handles held at a time, under SpecPins
ReplacerK == 2      \* replacer_k
RFrames == 3        \* frame ids used when the replacer is called directly
RCapacity == 2      \* num_frames of the replacer called directly
RMaxTime == 5       \* as MaxTime, for the replacer called directly
MaxKeyLen == 2      \* length of the keys put into and removed from a trie
MaxTries == 4       \* Trie objects made, the empty one included
ExampleCapacity == 7 \* num_frames of the replacer in the worked example of Evict
NThreads == 2       \* threads calling the manager, under SpecThreads
MaxCalls == 3       \* calls made in all, under SpecThreads

INVALID_PAGE_ID == -1
NoFrame == -1       \* a frame id out parameter that was not written / nullptr

Frames == 0 .. NFrames - 1
PageIds == 0 .. MaxPageId
Data == {0, 1}      \* the bytes of a page, abstracted to one symbol

(***************************************************************************)
(* LRUKReplacer                                                            *)
(***************************************************************************)
NewReplacer(num_frames, k) ==
    [node_store |-> <<>>, curr_size |-> 0, current_timestamp |-> 0,
     replacer_size |-> num_frames, k |-> k]

\* Every order in which the scan of the unordered node_store may visit it.
IterationOrders(S) ==
    {o \in [1 .. Cardinality(S) -> S] : \A i, j \in DOMAIN o : i # j => o[i] # o[j]}

\* Removing a key from a function (std::unordered_map::erase).
Erase(m, key) == [x \in DOMAIN m \ {key} |-> m[x]]

\* Adding or overwriting a key (operator[] assignment).
Assign(m, key, val) == [x \in DOMAIN m \cup {key} |-> IF x = key THEN val ELSE m[x]]

\* Mutant of EvictStep: a frame with fewer than K accesses is compared by its
\* distance like any other.
EvictStep_ColdNotPreferred(r, fid, acc) ==
    LET node == r.node_store[fid]
        k_dist == r.current_timestamp - Head(node.history)
    IN  IF ~node.is_evictable THEN acc
        ELSE IF k_dist > acc.k_dist_max
             THEN [acc EXCEPT !.frame = fid, !.k_dist_max = k_dist]
             ELSE acc

\* One iteration of the scan loop of Evict: acc = [frame, k_dist_max, k_dist_inf].
EvictStep(r, fid, acc) ==
    LET node == r.node_store[fid]
        k_dist == r.current_timestamp - Head(node.history)
    IN  IF ~node.is_evictable THEN acc
        ELSE IF Len(node.history) < r.k
             THEN IF ~acc.k_dist_inf
                  THEN [frame |-> fid, k_dist_max |-> k_dist, k_dist_inf |-> TRUE]
                  ELSE IF k_dist > acc.k_dist_max
                       THEN [acc EXCEPT !.frame = fid, !.k_dist_max = k_dist]
                       ELSE acc
             ELSE IF ~acc.k_dist_inf /\ k_dist > acc.k_dist_max
                  THEN [acc EXCEPT !.frame = fid, !.k_dist_max = k_dist]
                  ELSE acc

RECURSIVE EvictScan(_, _, _, _)
EvictScan(r, order, i, acc) ==
    IF i > Len(order) THEN acc
    ELSE EvictScan(r, order, i + 1, EvictStep(r, order[i], acc))

\* LRUKReplacer::Evict: [ok, frame, r] with r the replacer afterwards.
Evict(r, order) ==
    IF r.curr_size = 0 THEN [ok |-> FALSE, frame |-> NoFrame, r |-> r]
    ELSE LET acc == EvictScan(r, order, 1,
                       [frame |-> NoFrame, k_dist_max |-> 0, k_dist_inf |-> FALSE])
         IN  IF acc.k_dist_max = 0 THEN [ok |-> FALSE, frame |-> NoFrame, r |-> r]
             ELSE [ok |-> TRUE, frame |-> acc.frame,
                   r |-> [r EXCEPT !.node_store = Erase(r.node_store, acc.frame),
                                   !.curr_size = r.curr_size - 1]]

\* The history of a tracked node after one more access.
PushHistory(r, node) ==
    IF node.k < r.k
    THEN [node EXCEPT !.k = node.k + 1,
                      !.history = Append(node.history, r.current_timestamp)]
    ELSE [node EXCEPT !.history = Append(Tail(node.history), r.current_timestamp)]

\* The guard in front of RecordAccess's body: "Replacer is full".
ReplacerFull(r, frame_id) == r.curr_size >= r.replacer_size

\* LRUKReplacer::RecordAccess: [fatal, r].
RecordAccess(r, frame_id) ==
    IF ReplacerFull(r, frame_id) THEN [fatal |-> TRUE, r |-> r]
    ELSE IF frame_id \notin DOMAIN r.node_store
         THEN [fatal |-> FALSE,
               r |-> [r EXCEPT
                        !.node_store = Assign(r.node_store, frame_id,
                            [k |-> 1, history |-> <<r.current_timestamp>>,
                             is_evictable |-> TRUE]),
                        !.curr_size = r.curr_size + 1,
                        !.current_timestamp = r.current_timestamp + 1]]
         ELSE [fatal |-> FALSE,
               r |-> [r EXCEPT
                        !.node_store[frame_id] = PushHistory(r, r.node_store[frame_id]),
                        !.current_timestamp = r.current_timestamp + 1]]

\* Mutant of SameFlag: the flag is never taken to be set already.
SameFlag_Ignored(node, set_evictable) == FALSE

\* SetEvictable's test that the node already has the flag asked for.
SameFlag(node, set_evictable) == node.is_evictable = set_evictable

\* LRUKReplacer::SetEvictable.
SetEvictable(r, frame_id, set_evictable) ==
    IF frame_id \notin DOMAIN r.node_store THEN r
    ELSE IF SameFlag(r.node_store[frame_id], set_evictable) THEN r
    ELSE [r EXCEPT !.node_store[frame_id].is_evictable = set_evictable,
                   !.curr_size = IF set_evictable THEN r.curr_size + 1
                                 ELSE r.curr_size - 1]

\* LRUKReplacer::Remove.
Remove(r, frame_id) ==
    IF frame_id \notin DOMAIN r.node_store THEN r
    ELSE IF ~r.node_store[frame_id].is_evictable THEN r
    ELSE [r EXCEPT !.node_store = Erase(r.node_store, frame_id),
                   !.curr_size = r.curr_size - 1]

\* LRUKReplacer::Size.
Size(r) == r.curr_size

(***************************************************************************)
(* BufferPoolManager                                                       *)
(***************************************************************************)
\* The manager's fields as one value, so that an operation is a function of it.
Bpm == [pages |-> pages, page_table |-> page_table, free_list |-> free_list,
        next_page_id |-> next_page_id, replacer |-> replacer]

\* std::unordered_map::emplace: no effect when the key is present.
Emplace(m, key, val) == IF key \in DOMAIN m THEN m ELSE Assign(m, key, val)

\* A DiskRequest as handed to DiskScheduler::Schedule.
WriteRequest(pg) == [is_write |-> TRUE, page_id |-> pg.page_id, data |-> pg.data]
ReadRequest(page_id) == [is_write |-> FALSE, page_id |-> page_id, data |-> 0]

\* Mutant of SelectFrame: the replacer is not asked for a victim.
SelectFrame_FreeListOnly(s, order) ==
    IF s.free_list # <<>>
    THEN [ok |-> TRUE, frame |-> Head(s.free_list), from_free |-> TRUE,
          free_list |-> Tail(s.free_list), replacer |-> s.replacer]
    ELSE [ok |-> FALSE, frame |-> NoFrame, from_free |-> FALSE,
          free_list |-> s.free_list, replacer |-> s.replacer]

\* The frame NewPage and FetchPage take: the head of the free list, else the
\* replacer's victim. [ok, frame, from_free, free_list, replacer].
SelectFrame(s, order) ==
    IF s.free_list # <<>>
    THEN [ok |-> TRUE, frame |-> Head(s.free_list), from_free |-> TRUE,
          free_list |-> Tail(s.free_list), replacer |-> s.replacer]
    ELSE LET e == Evict(s.replacer, order)
         IN  [ok |-> e.ok, frame |-> e.frame, from_free |-> FALSE,
              free_list |-> s.free_list, replacer |-> e.r]

\* The write-back of the frame's old content, issued when its dirty flag is set.
Writeback(pg) == IF pg.is_dirty THEN <<WriteRequest(pg)>> ELSE <<>>

\* The page table after the reused frame's old entry is dropped and the new made.
Remap(page_table_, old_page_id, new_page_id, frame_id) ==
    Emplace(IF old_page_id # INVALID_PAGE_ID THEN Erase(page_table_, old_page_id)
            ELSE page_table_,
            new_page_id, frame_id)

\* What an operation yields: the manager afterwards, whether the process died,
\* the return value and the disk requests issued, in order.
\* victim: the frame the operation took for reuse or freed, NoFrame when none.
Outcome(s, died, ok, frame, page, victim, io) ==
    [s |-> s, fatal |-> died, ret_ok |-> ok, ret_frame |-> frame, ret_page |-> page,
     victim |-> victim, io |-> io]

\* Mutant of PinInReplacer: the frame is left evictable.
PinInReplacer_LeftEvictable(r, frame_id) == RecordAccess(r, frame_id)

\* RecordAccess then SetEvictable(false) on the frame just loaded.
\* [fatal, r].
PinInReplacer(r, frame_id) ==
    LET ra == RecordAccess(r, frame_id)
    IN  IF ra.fatal THEN ra
        ELSE [fatal |-> FALSE, r |-> SetEvictable(ra.r, frame_id, FALSE)]

\* BufferPoolManager::NewPage. order: the replacer's scan order; fail: the index
\* of the disk request that completes with false (0: none does).
NewPage(s, order, fail) ==
    LET sel == SelectFrame(s, order) IN
    IF ~sel.ok
    THEN Outcome(s, FALSE, FALSE, NoFrame, INVALID_PAGE_ID, NoFrame, <<>>)
    ELSE
    LET f == sel.frame
        pg == s.pages[f]
        wb == Writeback(pg)
        s1 == [s EXCEPT !.free_list = sel.free_list, !.replacer = sel.replacer]
    IN  IF wb # <<>> /\ fail = 1
        THEN Outcome(s1, TRUE, FALSE, NoFrame, INVALID_PAGE_ID, f, wb)
        ELSE
        LET new_id == s.next_page_id
            pin == PinInReplacer(sel.replacer, f)
            s2 == [s1 EXCEPT
                     !.next_page_id = new_id + 1,
                     !.pages[f] = [pg EXCEPT !.page_id = new_id, !.pin_count = 1,
                                             !.is_dirty = FALSE],
                     !.page_table = Remap(s.page_table, pg.page_id, new_id, f),
                     !.replacer = pin.r]
        IN  IF pin.fatal
            THEN Outcome(s2, TRUE, FALSE, NoFrame, INVALID_PAGE_ID, f, wb)
            ELSE Outcome(s2, FALSE, TRUE, f, new_id, f, wb)

\* FetchPage when the page is resident: the handle is returned as the frame is.
FetchHit(s, page_id) ==
    Outcome(s, FALSE, TRUE, s.page_table[page_id], INVALID_PAGE_ID, NoFrame, <<>>)

\* BufferPoolManager::FetchPage. read: the bytes the disk read leaves in the frame.
FetchPage(s, page_id, order, fail, read) ==
    IF page_id \in DOMAIN s.page_table THEN FetchHit(s, page_id)
    ELSE
    LET sel == SelectFrame(s, order) IN
    IF ~sel.ok
    THEN Outcome(s, FALSE, FALSE, NoFrame, INVALID_PAGE_ID, NoFrame, <<>>)
    ELSE
    LET f == sel.frame
        pg == s.pages[f]
        wb == Writeback(pg)
        s1 == [s EXCEPT !.free_list = sel.free_list, !.replacer = sel.replacer]
    IN  IF wb # <<>> /\ fail = 1
        THEN Outcome(s1, TRUE, FALSE, NoFrame, INVALID_PAGE_ID, f, wb)
        ELSE
        LET io == Append(wb, ReadRequest(page_id))
            s2 == [s1 EXCEPT
                     !.pages[f] = [pg EXCEPT !.page_id = page_id, !.pin_count = 1,
                                             !.is_dirty = FALSE]]
        IN  IF fail = Len(io)
            THEN Outcome(s2, TRUE, FALSE, NoFrame, INVALID_PAGE_ID, f, io)
            ELSE
            LET pin == PinInReplacer(sel.replacer, f)
                s3 == [s2 EXCEPT
                         !.pages[f].data = read,
                         !.page_table = Remap(s.page_table, pg.page_id, page_id, f),
                         !.replacer = pin.r]
            IN  IF pin.fatal
                THEN Outcome(s3, TRUE, FALSE, NoFrame, INVALID_PAGE_ID, f, io)
                ELSE Outcome(s3, FALSE, TRUE, f, INVALID_PAGE_ID, f, io)

\* Mutant of UnpinDirty: the flag is assigned, so a clean unpin clears it.
UnpinDirty_Assigned(pg, is_dirty) == is_dirty

\* The dirty flag after UnpinPage(page_id, is_dirty).
UnpinDirty(pg, is_dirty) == IF is_dirty THEN TRUE ELSE pg.is_dirty

\* Mutant of UnpinReplacer: the replacer is not told.
UnpinReplacer_NotTold(r, frame_id, new_pin_count) == r

\* The replacer after UnpinPage brought the pin count to new_pin_count.
UnpinReplacer(r, frame_id, new_pin_count) ==
    IF new_pin_count = 0 THEN SetEvictable(r, frame_id, TRUE) ELSE r

\* BufferPoolManager::UnpinPage.
UnpinPage(s, page_id, is_dirty) ==
    IF page_id \notin DOMAIN s.page_table
    THEN Outcome(s, FALSE, FALSE, NoFrame, INVALID_PAGE_ID, NoFrame, <<>>)
    ELSE
    LET f == s.page_table[page_id]
        pg == [s.pages[f] EXCEPT !.is_dirty = UnpinDirty(s.pages[f], is_dirty)]
    IN  IF pg.pin_count > 0
        THEN Outcome([s EXCEPT
                        !.pages[f] = [pg EXCEPT !.pin_count = pg.pin_count - 1],
                        !.replacer = UnpinReplacer(s.replacer, f, pg.pin_count - 1)],
                     FALSE, TRUE, NoFrame, INVALID_PAGE_ID, NoFrame, <<>>)
        ELSE Outcome([s EXCEPT !.pages[f] = pg],
                     FALSE, FALSE, NoFrame, INVALID_PAGE_ID, NoFrame, <<>>)

\* Mutant of FlushRequests: a clean page is not written.
FlushRequests_OnlyDirty(pg) == IF pg.is_dirty THEN <<WriteRequest(pg)>> ELSE <<>>

\* The disk requests FlushPage issues for a resident page held in pg.
FlushRequests(pg) == <<WriteRequest(pg)>>

\* BufferPoolManager::FlushPage.
FlushPage(s, page_id, fail) ==
    IF page_id \notin DOMAIN s.page_table
    THEN Outcome(s, FALSE, FALSE, NoFrame, INVALID_PAGE_ID, NoFrame, <<>>)
    ELSE
    LET f == s.page_table[page_id]
        io == FlushRequests(s.pages[f])
    IN  IF fail = 1
        THEN Outcome(s, TRUE, FALSE, NoFrame, INVALID_PAGE_ID, NoFrame, io)
        ELSE Outcome([s EXCEPT !.pages[f].is_dirty = FALSE],
                     FALSE, TRUE, NoFrame, INVALID_PAGE_ID, NoFrame, io)

\* BufferPoolManager::FlushAllPages: one write per frame, in frame order; the
\* frames before the failing request have had their dirty flag cleared.
FlushAllPages(s, fail) ==
    LET all == [i \in 1 .. NFrames |-> WriteRequest(s.pages[i - 1])]
        done == IF fail \in 1 .. NFrames THEN fail - 1 ELSE NFrames
    IN  Outcome([s EXCEPT !.pages = [f \in Frames |->
                             IF f < done THEN [s.pages[f] EXCEPT !.is_dirty = FALSE]
                             ELSE s.pages[f]]],
                fail \in 1 .. NFrames, fail \notin 1 .. NFrames, NoFrame,
                INVALID_PAGE_ID, NoFrame,
                IF fail \in 1 .. NFrames THEN SubSeq(all, 1, fail) ELSE all)

\* Mutant of DeleteRefused: the pin count is not looked at.
DeleteRefused_Never(pg) == FALSE

\* Whether DeletePage refuses: the page is resident and pinned.
DeleteRefused(pg) == pg.pin_count > 0

\* Mutant of DeleteReplacer: the replacer is not told of the deletion.
DeleteReplacer_NotTold(r, frame_id) == r

\* The replacer after DeletePage freed the frame.
DeleteReplacer(r, frame_id) == Remove(r, frame_id)

\* BufferPoolManager::DeletePage.
DeletePage(s, page_id) ==
    IF page_id \notin DOMAIN s.page_table
    THEN Outcome(s, FALSE, TRUE, NoFrame, INVALID_PAGE_ID, NoFrame, <<>>)
    ELSE
    LET f == s.page_table[page_id] IN
    IF DeleteRefused(s.pages[f])
    THEN Outcome(s, FALSE, FALSE, NoFrame, INVALID_PAGE_ID, NoFrame, <<>>)
    ELSE Outcome([s EXCEPT
                    !.free_list = Append(s.free_list, f),
                    !.replacer = DeleteReplacer(s.replacer, f),
                    !.pages[f].page_id = INVALID_PAGE_ID,
                    !.page_table = Erase(s.page_table, page_id)],
                 FALSE, TRUE, NoFrame, INVALID_PAGE_ID, f, <<>>)

(***************************************************************************)
(* Trie                                                                    *)
(* A node is [is_value_node, value, children]; children maps a character   *)
(* to a node id (a shared_ptr), value is <<T, v>>: the value's type and    *)
(* the value. heap[id] is the node with that id, id 0 is nullptr.          *)
(***************************************************************************)
Chars == {"a", "b"}
Keys == UNION {[1 .. n -> Chars] : n \in 0 .. MaxKeyLen}
Types == {"uint32_t", "uint64_t"}
Values == {<<"uint32_t", 1>>, <<"uint32_t", 2>>, <<"uint64_t", 1>>}
NullValue == <<>>

\* std::make_shared<TrieNode>(children) and make_shared<TrieNodeWithValue<T>>.
TrieNode(children) == [is_value_node |-> FALSE, value |-> NullValue, children |-> children]
TrieNodeWithValue(children, value) ==
    [is_value_node |-> TRUE, value |-> value, children |-> children]

\* The node the walk of Get ends in, 0 when a step finds no child.
RECURSIVE Walk(_, _, _, _)
Walk(h, curr, key, i) ==
    IF i > Len(key) \/ curr = 0 THEN curr
    ELSE Walk(h, IF key[i] \in DOMAIN h[curr].children THEN h[curr].children[key[i]]
                 ELSE 0,
              key, i + 1)

\* Trie::Get<T>: the value, NullValue for nullptr.
Get(h, root, key, T) ==
    LET curr == Walk(h, root, key, 1) IN
    IF curr = 0 THEN NullValue
    ELSE IF ~h[curr].is_value_node THEN NullValue
    ELSE IF h[curr].value[1] # T THEN NullValue
    ELSE h[curr].value

\* Mutant of TerminalChildren: the children of the node replaced are dropped.
TerminalChildren_Dropped(h, curr, c) == <<>>

\* The children the new value node of Put starts with: those of the node it
\* replaces, if there is one.
TerminalChildren(h, curr, c) ==
    IF c \in DOMAIN h[curr].children
    THEN LET n == h[h[curr].children[c]] IN
         IF n.children # <<>> THEN n.children ELSE <<>>
    ELSE <<>>

\* The loop of Put and its last step, from the fresh node curr on: [heap, root]
\* with root unused. Every node written to was allocated by this Put.
RECURSIVE PutWalk(_, _, _, _, _)
PutWalk(h, curr, key, i, value) ==
    LET id == Len(h) + 1
        c == key[i]
    IN  IF i = Len(key)
        THEN LET nv == TrieNodeWithValue(TerminalChildren(h, curr, c), value)
             IN  [Append(h, nv) EXCEPT ![curr].children = Assign(@, c, id)]
        ELSE LET node == IF c \in DOMAIN h[curr].children
                         THEN h[h[curr].children[c]]
                         ELSE TrieNode(<<>>)
             IN  PutWalk([Append(h, node) EXCEPT ![curr].children = Assign(@, c, id)],
                         id, key, i + 1, value)

\* Mutant of CloneRoot: Put works on the trie's own root.
CloneRoot_Shared(h, root) ==
    IF root # 0 THEN [heap |-> h, root |-> root]
    ELSE [heap |-> Append(h, TrieNode(<<>>)), root |-> Len(h) + 1]

\* The root Put starts from: a clone of root_, a fresh node when root_ is null.
CloneRoot(h, root) ==
    [heap |-> Append(h, IF root # 0 THEN h[root] ELSE TrieNode(<<>>)),
     root |-> Len(h) + 1]

\* Trie::Put: [heap, root], the heap afterwards and the new trie's root.
Put(h, root, key, value) ==
    IF Len(key) = 0
    THEN [heap |-> Append(h, TrieNodeWithValue(
                                IF root # 0 THEN h[root].children ELSE <<>>, value)),
          root |-> Len(h) + 1]
    ELSE LET new_root == CloneRoot(h, root)
         IN  [heap |-> PutWalk(new_root.heap, new_root.root, key, 1, value),
              root |-> new_root.root]

\* The nodes from the root along key, as far as they exist.
RECURSIVE PathOf(_, _, _, _)
PathOf(h, path, key, i) ==
    IF i > Len(key) THEN path
    ELSE LET curr == h[path[Len(path)]] IN
         IF key[i] \notin DOMAIN curr.children THEN path
         ELSE PathOf(h, Append(path, curr.children[key[i]]), key, i + 1)

Front(seq) == SubSeq(seq, 1, Len(seq) - 1)

\* Mutant of DropEmpty: the ancestors are kept.
DropEmpty_Kept(h, path, rk) == [path |-> path, rk |-> rk]

\* The first loop of Remove's second half: the ancestors left with no value
\* and fewer than two children are dropped. [path, rk].
RECURSIVE DropEmpty(_, _, _)
DropEmpty(h, path, rk) ==
    IF path # <<>> /\ Cardinality(DOMAIN h[path[Len(path)]].children) < 2
                   /\ ~h[path[Len(path)]].is_value_node
    THEN DropEmpty(h, Front(path), rk - 1)
    ELSE [path |-> path, rk |-> rk]

\* The second loop: the rest of the path is cloned, leaf end first. [heap, root].
RECURSIVE Rebuild(_, _, _, _, _)
Rebuild(h, path, key, rk, node) ==
    IF path = <<>> THEN [heap |-> h, root |-> node]
    ELSE LET old == h[path[Len(path)]]
             n == IF node # 0
                  THEN [old EXCEPT !.children = Assign(@, key[rk], node)]
                  ELSE [old EXCEPT !.children = Erase(@, key[rk])]
         IN  Rebuild(Append(h, n), Front(path), key, rk - 1, Len(h) + 1)

\* Mutant of RemovedNode: the node put in place of the removed one keeps its value.
RemovedNode_KeepsValue(back) == back

\* The node Remove puts in place of a valued node that has children.
RemovedNode(back) == TrieNode(back.children)

\* Trie::Remove: [heap, root]; root is the trie's own root when it returns *this.
TrieRemove(h, root, key) ==
    IF root = 0 THEN [heap |-> h, root |-> root]
    ELSE
    LET path == PathOf(h, <<root>>, key, 1) IN
    IF Len(path) # Len(key) + 1 THEN [heap |-> h, root |-> root]
    ELSE
    LET back == h[path[Len(path)]] IN
    IF back.children = <<>>
    THEN LET d == DropEmpty(h, Front(path), Len(key))
         IN  Rebuild(h, d.path, key, d.rk, 0)
    ELSE IF back.is_value_node
    THEN Rebuild(Append(h, RemovedNode(back)), Front(path), key, Len(key),
                 Len(h) + 1)
    ELSE [heap |-> h, root |-> root]

\* The call before a call: prev.
NoPrevCall == [op |-> "none", src |-> 1, key |-> <<>>]
PrevCall == [op |-> tlast.op, src |-> tlast.src, key |-> tlast.key]
NoTrieCall == [op |-> "none", src |-> 1, key |-> <<>>, value |-> NullValue,
               prev |-> NoPrevCall]

CallPut ==
    /\ Len(roots) < MaxTries
    /\ \E t \in DOMAIN roots, key \in Keys, value \in Values :
         LET r == Put(heap, roots[t], key, value) IN
           /\ heap' = r.heap
           /\ roots' = Append(roots, r.root)
           /\ tlast' = [op |-> "Put", src |-> t, key |-> key, value |-> value,
                        prev |-> PrevCall]
    /\ UNCHANGED <<bpmVars, fatal, last, dirtied, accessed, handles, threads>>

CallTrieRemove ==
    /\ Len(roots) < MaxTries
    /\ \E t \in DOMAIN roots, key \in Keys :
         LET r == TrieRemove(heap, roots[t], key) IN
           /\ heap' = r.heap
           /\ roots' = Append(roots, r.root)
           /\ tlast' = [op |-> "Remove", src |-> t, key |-> key, value |-> NullValue,
                        prev |-> PrevCall]
    /\ UNCHANGED <<bpmVars, fatal, last, dirtied, accessed, handles, threads>>

NextTrie ==
    \/ CallPut
    \/ CallTrieRemove

(***************************************************************************)
(* The calls made on the buffer pool manager                               *)
(***************************************************************************)
NoCall == [op |-> "none", page_id |-> INVALID_PAGE_ID, is_dirty |-> FALSE,
           ret_ok |-> FALSE, ret_frame |-> NoFrame, ret_page |-> INVALID_PAGE_ID,
           victim |-> NoFrame, old_page_id |-> INVALID_PAGE_ID, io |-> <<>>]

\* old_page_id: the page the victim frame held when the call began.
Call(op, page_id, is_dirty, o) ==
    [op |-> op, page_id |-> page_id, is_dirty |-> is_dirty,
     ret_ok |-> o.ret_ok, ret_frame |-> o.ret_frame, ret_page |-> o.ret_page,
     victim |-> o.victim,
     old_page_id |-> IF o.victim # NoFrame THEN pages[o.victim].page_id
                     ELSE INVALID_PAGE_ID,
     io |-> o.io]

Apply(o) ==
    /\ pages' = o.s.pages
    /\ page_table' = o.s.page_table
    /\ free_list' = o.s.free_list
    /\ next_page_id' = o.s.next_page_id
    /\ replacer' = o.s.replacer
    /\ fatal' = o.fatal

NoHandles == [h \in PageIds \X Frames |-> 0]

\* The threads that call the manager, and their state before any call:
\* latch: the thread holding latch_, 0 when it is free;
\* pc[t]: "idle", "unlock" (body done, latch_ held), "new_return" (NewPage
\*   after latch_.unlock()), "hit_return" (FetchPage hit after latch_.unlock());
\* frame[t], page[t]: the locals frame_id / it and the page the call is about;
\* stale[t]: the iterator `it` of a hit was invalidated after the unlock;
\* ret[t], serial[t]: what the call returned and what its body had computed.
Threads == 1 .. NThreads
NoThreads ==
    [latch |-> 0,
     calls |-> 0,
     pc |-> [t \in Threads |-> "idle"],
     op |-> [t \in Threads |-> "none"],
     frame |-> [t \in Threads |-> NoFrame],
     page |-> [t \in Threads |-> INVALID_PAGE_ID],
     stale |-> [t \in Threads |-> FALSE],
     ret |-> [t \in Threads |-> INVALID_PAGE_ID],
     serial |-> [t \in Threads |-> INVALID_PAGE_ID]]

\* A caller received a handle / gave one back.
Grant(hs, page_id, frame_id) ==
    [hs EXCEPT ![<<page_id, frame_id>>] = hs[<<page_id, frame_id>>] + 1]
Release(hs, page_id, frame_id) ==
    [hs EXCEPT ![<<page_id, frame_id>>] = hs[<<page_id, frame_id>>] - 1]

InitWith(r) ==
    /\ pages = [f \in Frames |-> [page_id |-> INVALID_PAGE_ID, pin_count |-> 0,
                                  is_dirty |-> FALSE, data |-> 0]]
    /\ page_table = <<>>
    /\ free_list = [i \in 1 .. NFrames |-> i - 1]
    /\ next_page_id = 0
    /\ replacer = r
    /\ fatal = FALSE
    /\ last = NoCall
    /\ dirtied = [f \in Frames |-> FALSE]
    /\ accessed = <<>>
    /\ handles = NoHandles
    /\ threads = NoThreads
    /\ heap = <<>>
    /\ roots = <<0>>
    /\ tlast = NoTrieCall

Init == InitWith(NewReplacer(NFrames, ReplacerK))

SpecTrie == Init /\ [][NextTrie]_vars

\* The scan orders that matter to a call: one when the replacer is not asked.
ScanOrders ==
    IF free_list # <<>> THEN {<<>>} ELSE IterationOrders(DOMAIN replacer.node_store)

\* The observer's account of dirty unpins, after a call with outcome o.
ForgetDirty(o) ==
    IF o.ret_ok /\ o.victim # NoFrame THEN [dirtied EXCEPT ![o.victim] = FALSE]
    ELSE dirtied

CallNewPage ==
    /\ ~fatal
    /\ next_page_id <= MaxPageId
    /\ replacer.current_timestamp < MaxTime
    /\ \E order \in ScanOrders, fail \in 0 .. 1 :
         LET o == NewPage(Bpm, order, fail) IN
           /\ fail <= Len(o.io)
           /\ Apply(o)
           /\ last' = Call("NewPage", INVALID_PAGE_ID, FALSE, o)
           /\ dirtied' = ForgetDirty(o)
    /\ UNCHANGED <<accessed, trieVars>>

CallFetchPage ==
    /\ ~fatal
    /\ \E page_id \in PageIds :
         IF page_id \in DOMAIN page_table
         THEN LET o == FetchPage(Bpm, page_id, <<>>, 0, 0) IN
                /\ Apply(o)
                /\ last' = Call("FetchPage", page_id, FALSE, o)
                /\ dirtied' = ForgetDirty(o)
         ELSE /\ replacer.current_timestamp < MaxTime
              /\ \E order \in ScanOrders, fail \in 0 .. 2, read \in Data :
                   LET o == FetchPage(Bpm, page_id, order, fail, read) IN
                     /\ fail <= Len(o.io)
                     /\ o.fatal => read = 0
                     /\ Apply(o)
                     /\ last' = Call("FetchPage", page_id, FALSE, o)
                     /\ dirtied' = ForgetDirty(o)
    /\ UNCHANGED <<accessed, trieVars>>

CallUnpinPage ==
    /\ ~fatal
    /\ \E page_id \in PageIds, is_dirty \in BOOLEAN :
         LET o == UnpinPage(Bpm, page_id, is_dirty) IN
           /\ Apply(o)
           /\ last' = Call("UnpinPage", page_id, is_dirty, o)
           /\ dirtied' = IF is_dirty /\ page_id \in DOMAIN page_table
                         THEN [dirtied EXCEPT ![page_table[page_id]] = TRUE]
                         ELSE dirtied
    /\ UNCHANGED <<accessed, trieVars>>

CallFlushPage ==
    /\ ~fatal
    /\ \E page_id \in PageIds, fail \in 0 .. 1 :
         LET o == FlushPage(Bpm, page_id, fail) IN
           /\ fail <= Len(o.io)
           /\ Apply(o)
           /\ last' = Call("FlushPage", page_id, FALSE, o)
           /\ dirtied' = IF o.ret_ok THEN [dirtied EXCEPT ![page_table[page_id]] = FALSE]
                         ELSE dirtied
    /\ UNCHANGED <<accessed, trieVars>>

CallFlushAllPages ==
    /\ ~fatal
    /\ \E fail \in 0 .. NFrames :
         LET o == FlushAllPages(Bpm, fail) IN
           /\ Apply(o)
           /\ last' = Call("FlushAllPages", INVALID_PAGE_ID, FALSE, o)
           /\ dirtied' = IF o.ret_ok THEN [f \in Frames |-> FALSE] ELSE dirtied
    /\ UNCHANGED <<accessed, trieVars>>

CallDeletePage ==
    /\ ~fatal
    /\ \E page_id \in PageIds :
         LET o == DeletePage(Bpm, page_id) IN
           /\ Apply(o)
           /\ last' = Call("DeletePage", page_id, FALSE, o)
           /\ dirtied' = ForgetDirty(o)
    /\ UNCHANGED <<accessed, trieVars>>

\* A caller writes a resident page's bytes through the handle it was given.
WriteData ==
    /\ ~fatal
    /\ \E f \in Frames, d \in Data :
         /\ pages[f].page_id # INVALID_PAGE_ID
         /\ d # pages[f].data
         /\ pages' = [pages EXCEPT ![f].data = d]
         /\ last' = [NoCall EXCEPT !.op = "WriteData", !.ret_frame = f]
    /\ UNCHANGED <<page_table, free_list, next_page_id, replacer, fatal, dirtied,
                   accessed, trieVars>>

\* Callers that keep no account of their handles: any call with any argument.
Next ==
    \/ CallNewPage /\ UNCHANGED <<handles, threads>>
    \/ CallFetchPage /\ UNCHANGED <<handles, threads>>
    \/ CallUnpinPage /\ UNCHANGED <<handles, threads>>
    \/ CallFlushPage /\ UNCHANGED <<handles, threads>>
    \/ CallFlushAllPages /\ UNCHANGED <<handles, threads>>
    \/ CallDeletePage /\ UNCHANGED <<handles, threads>>
    \/ WriteData /\ UNCHANGED <<handles, threads>>

Spec == Init /\ [][Next]_vars

(***************************************************************************)
(* Several threads calling the manager. The body of an operation, from     *)
(* latch_.lock() to the last statement before latch_.unlock(), is one      *)
(* step; the unlock is a step; what NewPage and the hit of FetchPage do    *)
(* after their unlock is a step of its own.                                *)
(***************************************************************************)
\* std::unordered_map iterators: an erase of the element invalidates `it`, and
\* so may any insertion (rehash).
Invalidates(page_id) ==
    \/ page_id \notin DOMAIN page_table'
    \/ ~(DOMAIN page_table' \subseteq DOMAIN page_table)

\* Thread t takes latch_ and runs the body of the call that the step makes.
Locked(t) ==
    /\ threads.latch = 0
    /\ threads.pc[t] = "idle"
    /\ threads.calls < MaxCalls
    /\ threads' =
         [threads EXCEPT
            !.latch = t,
            !.calls = @ + 1,
            !.pc[t] = "unlock",
            !.op[t] = IF last'.op = "FetchPage" /\ last'.page_id \in DOMAIN page_table
                      THEN "FetchHit" ELSE last'.op,
            !.frame[t] = last'.ret_frame,
            !.page[t] = last'.page_id,
            !.ret[t] = INVALID_PAGE_ID,
            !.serial[t] = IF last'.op = "NewPage" THEN last'.ret_page
                          ELSE last'.ret_frame,
            !.stale = [u \in Threads |->
                         IF u = t THEN FALSE
                         ELSE threads.stale[u] \/
                              (threads.pc[u] = "hit_return"
                                 /\ Invalidates(threads.page[u]))]]

threadsOnly == <<bpmVars, fatal, last, dirtied, accessed, handles, trieVars>>

\* latch_.unlock(), lines 78 and 89 among others.
Unlock ==
    /\ ~fatal
    /\ \E t \in Threads :
         /\ threads.pc[t] = "unlock" /\ threads.latch = t
         /\ threads' =
              [threads EXCEPT
                 !.latch = 0,
                 !.pc[t] = IF threads.op[t] = "NewPage" /\ last.ret_ok
                           THEN "new_return"
                           ELSE IF threads.op[t] = "FetchHit" THEN "hit_return"
                           ELSE "idle",
                 !.ret[t] = threads.serial[t]]
    /\ UNCHANGED threadsOnly

\* NewPage line 79, after the unlock: *page_id = p.page_id_.
ReturnNewPage ==
    /\ ~fatal
    /\ \E t \in Threads :
         /\ threads.pc[t] = "new_return"
         /\ threads' = [threads EXCEPT !.pc[t] = "idle",
                                       !.ret[t] = pages[threads.frame[t]].page_id]
    /\ UNCHANGED threadsOnly

\* FetchPage line 90, after the unlock: return &pages_[it->second]. With `it`
\* invalidated the read is undefined: any frame, or the process dies.
ReturnHit ==
    /\ ~fatal
    /\ \E t \in Threads :
         /\ threads.pc[t] = "hit_return"
         /\ IF ~threads.stale[t]
            THEN /\ threads' = [threads EXCEPT !.pc[t] = "idle",
                                               !.ret[t] = page_table[threads.page[t]]]
                 /\ UNCHANGED fatal
            ELSE \/ \E f \in Frames :
                      /\ threads' = [threads EXCEPT !.pc[t] = "idle", !.ret[t] = f]
                      /\ UNCHANGED fatal
                 \/ /\ fatal' = TRUE
                    /\ UNCHANGED threads
    /\ UNCHANGED <<bpmVars, last, dirtied, accessed, handles, trieVars>>

NextThreads ==
    \/ \E t \in Threads : CallNewPage /\ Locked(t) /\ UNCHANGED handles
    \/ \E t \in Threads : CallFetchPage /\ Locked(t) /\ UNCHANGED handles
    \/ \E t \in Threads : CallUnpinPage /\ Locked(t) /\ UNCHANGED handles
    \/ \E t \in Threads : CallFlushPage /\ Locked(t) /\ UNCHANGED handles
    \/ \E t \in Threads : CallFlushAllPages /\ Locked(t) /\ UNCHANGED handles
    \/ \E t \in Threads : CallDeletePage /\ Locked(t) /\ UNCHANGED handles
    \/ Unlock
    \/ ReturnNewPage
    \/ ReturnHit

SpecThreads == Init /\ [][NextThreads]_vars

(***************************************************************************)
(* Callers that follow the pin discipline: every handle NewPage or         *)
(* FetchPage returned is given back by exactly one UnpinPage of its page,  *)
(* nobody unpins a page without holding a handle for it, and only pages    *)
(* that NewPage has returned are fetched.                                  *)
(***************************************************************************)
Outstanding == {h \in DOMAIN handles : handles[h] > 0}

RECURSIVE SumOver(_, _)
SumOver(hs, S) ==
    IF S = {} THEN 0
    ELSE LET h == CHOOSE x \in S : TRUE IN hs[h] + SumOver(hs, S \ {h})
\* The number of handles held.
Held(hs) == SumOver(hs, DOMAIN hs)

\* The handle the last call returned is now held by its caller.
TakeHandle(page_id) ==
    /\ handles' = IF last'.ret_ok THEN Grant(handles, page_id, last'.ret_frame)
                  ELSE handles
    /\ Held(handles') <= MaxHandles

\* The caller of the last UnpinPage held a handle for that page and gave it up.
GiveHandle ==
    \E f \in Frames :
        /\ handles[<<last'.page_id, f>>] > 0
        /\ handles' = Release(handles, last'.page_id, f)

NextPins ==
    \/ CallNewPage /\ TakeHandle(last'.ret_page) /\ UNCHANGED threads
    \/ CallFetchPage /\ last'.page_id < next_page_id /\ TakeHandle(last'.page_id)
                     /\ UNCHANGED threads
    \/ CallUnpinPage /\ GiveHandle /\ UNCHANGED threads
    \/ CallFlushPage /\ UNCHANGED <<handles, threads>>
    \/ CallFlushAllPages /\ UNCHANGED <<handles, threads>>
    \/ CallDeletePage /\ UNCHANGED <<handles, threads>>
    \/ WriteData /\ UNCHANGED <<handles, threads>>

SpecPins == Init /\ [][NextPins]_vars

(***************************************************************************)
(* The replacer called directly                                            *)
(***************************************************************************)
RFrameIds == 0 .. RFrames - 1

InitLRUK == InitWith(NewReplacer(RCapacity, ReplacerK))

\* A call on the replacer: frame_id and set_evictable are the arguments.
LRUKCall(op, frame_id, set_evictable, ok, out_frame) ==
    [NoCall EXCEPT !.op = op, !.victim = frame_id, !.is_dirty = set_evictable,
                   !.ret_ok = ok, !.ret_frame = out_frame]

notReplacer == <<pages, page_table, free_list, next_page_id, dirtied, handles, threads,
                 trieVars>>

CallRecordAccess ==
    /\ ~fatal
    /\ replacer.current_timestamp < RMaxTime
    /\ \E frame_id \in RFrameIds :
         LET ra == RecordAccess(replacer, frame_id) IN
           /\ replacer' = ra.r
           /\ fatal' = ra.fatal
           /\ last' = LRUKCall("RecordAccess", frame_id, FALSE, ~ra.fatal, NoFrame)
           /\ accessed' = IF ra.fatal THEN accessed
                          ELSE IF frame_id \in DOMAIN accessed
                          THEN [accessed EXCEPT ![frame_id] =
                                   Append(@, replacer.current_timestamp)]
                          ELSE Assign(accessed, frame_id, <<replacer.current_timestamp>>)
    /\ UNCHANGED notReplacer

CallSetEvictable ==
    /\ ~fatal
    /\ \E frame_id \in RFrameIds, set_evictable \in BOOLEAN :
         /\ replacer' = SetEvictable(replacer, frame_id, set_evictable)
         /\ last' = LRUKCall("SetEvictable", frame_id, set_evictable, TRUE, NoFrame)
    /\ UNCHANGED <<fatal, accessed, notReplacer>>

CallRemove ==
    /\ ~fatal
    /\ \E frame_id \in RFrameIds :
         /\ replacer' = Remove(replacer, frame_id)
         /\ last' = LRUKCall("Remove", frame_id, FALSE, TRUE, NoFrame)
         /\ accessed' = [f \in DOMAIN replacer'.node_store |-> accessed[f]]
    /\ UNCHANGED <<fatal, notReplacer>>

CallEvict ==
    /\ ~fatal
    /\ \E order \in IterationOrders(DOMAIN replacer.node_store) :
         LET e == Evict(replacer, order) IN
           /\ replacer' = e.r
           /\ last' = LRUKCall("Evict", NoFrame, FALSE, e.ok, e.frame)
           /\ accessed' = [f \in DOMAIN replacer'.node_store |-> accessed[f]]
    /\ UNCHANGED <<fatal, notReplacer>>

NextLRUK ==
    \/ CallRecordAccess
    \/ CallSetEvictable
    \/ CallRemove
    \/ CallEvict

SpecLRUK == InitLRUK /\ [][NextLRUK]_vars

(***************************************************************************)
(* Vocabulary of the properties                                            *)
(***************************************************************************)
Resident(page_id) == page_id \in DOMAIN page_table
Tracked(r, f) == f \in DOMAIN r.node_store
Evictable(r, f) == Tracked(r, f) /\ r.node_store[f].is_evictable
EvictableFrames(r) == {f \in DOMAIN r.node_store : r.node_store[f].is_evictable}
InFreeList(fl, f) == \E i \in DOMAIN fl : fl[i] = f
\* The step is a call of op that returned (the process did not die in it).
Returned(op) == last'.op = op /\ ~fatal'
\* The step is a NewPage, or a FetchPage of a page that is not resident.
Loading ==
    \/ Returned("NewPage")
    \/ Returned("FetchPage") /\ ~Resident(last'.page_id)

(***************************************************************************)
(* Properties of the buffer pool manager                                   *)
(***************************************************************************)
\* C1: FetchPage of a resident page increments the frame's pin count by one,
\* records the access in the replacer and leaves the frame non-evictable,
\* whatever the pin count was before.
C1_FetchHitPins ==
    [][Returned("FetchPage") /\ Resident(last'.page_id) =>
         LET f == page_table[last'.page_id] IN
           /\ last'.ret_frame = f
           /\ pages'[f].pin_count = pages[f].pin_count + 1
           /\ replacer'.current_timestamp = replacer.current_timestamp + 1
           /\ ~Evictable(replacer', f)]_vars

\* Part of C3: a pinned frame is not evictable.
C3_PinnedNotEvictable ==
    \A f \in Frames : pages[f].pin_count > 0 => ~Evictable(replacer, f)
\* Part of C3: the frame a NewPage or FetchPage step takes had pin count 0.
C3_ReusedFrameUnpinned ==
    last'.op \in {"NewPage", "FetchPage"} /\ last'.victim # NoFrame
        => pages[last'.victim].pin_count = 0
\* C3: in every reachable state a frame with pin count > 0 is not evictable in
\* the replacer, and the frame NewPage or FetchPage takes for reuse has pin
\* count 0.
C3_PinnedNeverEvicted ==
    [](C3_PinnedNotEvictable) /\ [][C3_ReusedFrameUnpinned]_vars

\* C3 witness: a pinned frame was passed over and the other frame's page evicted.
C3_Witness ==
    /\ last.op \in {"NewPage", "FetchPage"} /\ last.ret_ok
    /\ last.old_page_id # INVALID_PAGE_ID
    /\ \E f \in Frames : f # last.victim /\ pages[f].pin_count > 0

\* Part of C4: null exactly when nothing is free and every frame is pinned.
C4_NullIffAllPinned ==
    Loading =>
        (~last'.ret_ok <=> (free_list = <<>> /\ \A f \in Frames : pages[f].pin_count > 0))
\* Part of C4: a null return leaves the manager and its replacer as they were.
C4_NullChangesNothing ==
    Loading /\ ~last'.ret_ok => UNCHANGED bpmVars
\* Part of C4: NewPage returns an identifier above all it returned before.
C4_IdsIncrease ==
    /\ next_page_id' >= next_page_id
    /\ Returned("NewPage") /\ last'.ret_ok =>
          last'.ret_page >= next_page_id /\ next_page_id' > last'.ret_page
\* C4: NewPage, and FetchPage of a page that is not resident, return null exactly
\* when the free list is empty and every frame is pinned; a null return changes
\* nothing in the manager; the identifiers NewPage returns strictly increase.
C4_NullOnlyWhenAllPinned ==
    [][C4_NullIffAllPinned /\ C4_NullChangesNothing /\ C4_IdsIncrease]_vars

\* C4 witness: a NewPage that returned null on a full, fully pinned pool.
C4_Witness ==
    /\ last.op = "NewPage" /\ ~last.ret_ok /\ ~fatal
    /\ free_list = <<>>
    /\ \A f \in Frames : pages[f].pin_count > 0

\* Part of C5: the disk requests of a step that reuses a frame dirtied by an unpin.
C5_Writeback ==
    LET v == last'.victim IN
    (/\ last'.op \in {"NewPage", "FetchPage"}
     /\ v # NoFrame
     /\ pages[v].page_id # INVALID_PAGE_ID
     /\ dirtied[v])
    => /\ last'.io # <<>>
       /\ last'.io[1] = [is_write |-> TRUE, page_id |-> pages[v].page_id,
                         data |-> pages[v].data]
       /\ \A i \in 2 .. Len(last'.io) : ~last'.io[i].is_write
       /\ last'.ret_ok => ~fatal'
\* C5: when NewPage or FetchPage reuses a frame whose resident page p was unpinned
\* dirty since it was loaded or last flushed (unpinned clean afterwards or not),
\* the first disk request of the call is the write of that frame's bytes under
\* p; the read of the new page comes after it, and the frame is handed out only
\* if the requests completed.
C5_DirtyWrittenBeforeReuse == [][C5_Writeback]_vars

\* C5 witness: a FetchPage evicted a page holding bytes a caller wrote: the
\* write of those bytes under the old identifier first, then the read.
C5_Witness ==
    /\ last.op = "FetchPage" /\ last.ret_ok
    /\ last.old_page_id # INVALID_PAGE_ID
    /\ last.io = <<[is_write |-> TRUE, page_id |-> last.old_page_id, data |-> 1],
                   [is_write |-> FALSE, page_id |-> last.page_id, data |-> 0]>>

\* Part of C6: what an UnpinPage step returns and changes.
C6_Unpin ==
    Returned("UnpinPage") =>
      LET p == last'.page_id IN
        /\ last'.ret_ok <=> (Resident(p) /\ pages[page_table[p]].pin_count > 0)
        /\ last'.ret_ok =>
             LET f == page_table[p] IN
               /\ pages'[f].pin_count = pages[f].pin_count - 1
               /\ Evictable(replacer', f) <=> pages'[f].pin_count = 0
        /\ ~Resident(p) => UNCHANGED bpmVars
\* C6: UnpinPage returns true exactly when the page is resident with pin count > 0;
\* then the pin count drops by one and the frame is evictable afterwards exactly
\* when the count reached 0; for a page that is not resident nothing changes.
C6_UnpinDecrements == [][C6_Unpin]_vars

\* C6 witness: an UnpinPage that returned true and left the frame evictable.
C6_Witness ==
    /\ last.op = "UnpinPage" /\ last.ret_ok
    /\ Resident(last.page_id)
    /\ pages[page_table[last.page_id]].pin_count = 0
    /\ Evictable(replacer, page_table[last.page_id])

\* Part of C7: what a DeletePage step returns and changes.
C7_Delete ==
    Returned("DeletePage") =>
      LET p == last'.page_id IN
        /\ ~Resident(p) => last'.ret_ok /\ UNCHANGED bpmVars
        /\ Resident(p) /\ pages[page_table[p]].pin_count > 0 =>
             ~last'.ret_ok /\ UNCHANGED bpmVars
        /\ Resident(p) /\ pages[page_table[p]].pin_count = 0 =>
             LET f == page_table[p] IN
               /\ last'.ret_ok
               /\ p \notin DOMAIN page_table'
               /\ pages'[f].page_id = INVALID_PAGE_ID
               /\ InFreeList(free_list', f)
               /\ ~Tracked(replacer', f)
               /\ Size(replacer') = Cardinality(EvictableFrames(replacer'))
               /\ Size(replacer') = Size(replacer) - 1
\* C7: DeletePage returns true and changes nothing for a page that is not
\* resident, returns false and changes nothing for a pinned page, and otherwise
\* returns true with the page unmapped, its frame INVALID, on the free list and
\* untracked by the replacer, whose Size() counts the evictable frames left.
C7_DeletePage == [][C7_Delete]_vars

\* C7 witness: a DeletePage that freed a frame while another page stayed resident.
C7_Witness ==
    /\ last.op = "DeletePage" /\ last.ret_ok /\ last.victim # NoFrame
    /\ InFreeList(free_list, last.victim)
    /\ page_table # <<>>

\* Part of C8: what a FlushPage step returns, requests and changes.
C8_Flush ==
    Returned("FlushPage") =>
      LET p == last'.page_id IN
        /\ ~Resident(p) => ~last'.ret_ok /\ last'.io = <<>> /\ UNCHANGED bpmVars
        /\ Resident(p) =>
             LET f == page_table[p] IN
               /\ last'.ret_ok
               /\ last'.io = <<[is_write |-> TRUE, page_id |-> p,
                                data |-> pages[f].data]>>
               /\ pages' = [pages EXCEPT ![f].is_dirty = FALSE]
               /\ UNCHANGED <<page_table, free_list, replacer, next_page_id>>
\* C8: FlushPage of a page that is not resident returns false without a disk
\* request; of a resident page it issues exactly one write of the frame's bytes
\* under that identifier, dirty or not, clears the dirty flag and returns true,
\* leaving pin counts, page table, free list and replacer as they were.
C8_FlushPage == [][C8_Flush]_vars

\* C8 witness: a FlushPage of a resident page whose dirty flag was not set,
\* holding bytes a caller wrote.
C8_Witness ==
    /\ last.op = "FlushPage" /\ last.ret_ok
    /\ ~dirtied[page_table[last.page_id]]
    /\ last.io[1].data = 1
    /\ pages[page_table[last.page_id]].pin_count > 0

\* Part of C2: a page for which a handle is held is resident in the handle's frame.
C2_HeldPageStays ==
    \A h \in Outstanding :
        /\ Resident(h[1])
        /\ page_table[h[1]] = h[2]
        /\ pages[h[2]].page_id = h[1]
\* Part of C2: the UnpinPage by which a holder gives its handle back returns true.
C2_HolderUnpinSucceeds ==
    last.op = "UnpinPage" /\ ~fatal => last.ret_ok
\* C2: while a caller holds a handle for page p, returned by NewPage or
\* FetchPage in frame f and not yet given back by UnpinPage(p), p stays resident
\* in f (no eviction takes f, no DeletePage(p) succeeds), and the UnpinPage that
\* gives a handle back returns true.
C2_HandleProtectsPage ==
    ~fatal => C2_HeldPageStays /\ C2_HolderUnpinSucceeds

(***************************************************************************)
(* Properties of the replacer                                              *)
(***************************************************************************)
\* The frames with fewer than K recorded accesses, among S.
Cold(S) == {f \in S : Len(accessed[f]) < replacer.k}
\* The timestamp of the K-th most recent access of a frame with at least K.
KthRecent(f) == accessed[f][Len(accessed[f]) - replacer.k + 1]
\* The oldest access the replacer still holds for a frame with fewer than K.
Oldest(f) == accessed[f][1]

\* The accesses rs made one after the other on replacer r.
RECURSIVE Accesses(_, _)
Accesses(r, rs) ==
    IF rs = <<>> THEN r ELSE Accesses(RecordAccess(r, Head(rs)).r, Tail(rs))

\* Part of C9: what an Evict step returns.
C9_Evict ==
    Returned("Evict") =>
      LET E == EvictableFrames(replacer)
          v == last'.ret_frame
      IN  /\ ~last'.ret_ok <=> E = {}
          /\ last'.ret_ok =>
               /\ v \in E
               /\ Cold(E) # {} => v \in Cold(E) /\ \A g \in Cold(E) : Oldest(v) <= Oldest(g)
               /\ Cold(E) = {} => \A g \in E : KthRecent(v) <= KthRecent(g)
               /\ ~Tracked(replacer', v)
\* Part of C9, its example: K = 2, accesses 1,2,3,4,1,2,3,4, all evictable: Evict
\* returns 1; after one access to the new frame 5 the next Evict returns 5.
C9_Example ==
    LET r8 == Accesses(NewReplacer(ExampleCapacity, 2), <<1, 2, 3, 4, 1, 2, 3, 4>>)
    IN  \A o1 \in IterationOrders(DOMAIN r8.node_store) :
          LET e1 == Evict(r8, o1)
              r9 == RecordAccess(e1.r, 5).r
          IN  /\ e1.ok /\ e1.frame = 1
              /\ \A o2 \in IterationOrders(DOMAIN r9.node_store) :
                   LET e2 == Evict(r9, o2) IN e2.ok /\ e2.frame = 5
\* C9: Evict returns null exactly when no tracked frame is evictable; otherwise
\* it returns an evictable frame: if some evictable frame has fewer than K
\* accesses, the one of those with the smallest oldest access, else the one with
\* the smallest K-th most recent access; the returned frame is no longer
\* tracked; and the example run ends as stated.
C9_EvictChoice == [][C9_Evict /\ C9_Example]_vars

\* C9 witness: Evict took a frame and left behind an evictable frame with K
\* accesses and a frame that is not evictable.
C9_Witness ==
    /\ last.op = "Evict" /\ last.ret_ok
    /\ \E f \in EvictableFrames(replacer) : Len(accessed[f]) >= replacer.k
    /\ \E f \in DOMAIN replacer.node_store : ~replacer.node_store[f].is_evictable

(***************************************************************************)
(* Properties of the trie                                                  *)
(***************************************************************************)
\* The trie the last call was made on, and the trie it returned.
SrcRoot == roots[tlast'.src]
DstRoot == roots'[Len(roots')]

\* Part of C10: what Get finds in the trie a Put step returned.
C10_Put ==
    tlast'.op = "Put" =>
      /\ Get(heap', DstRoot, tlast'.key, tlast'.value[1]) = tlast'.value
      /\ \A j \in Keys \ {tlast'.key}, T \in Types :
           Get(heap', DstRoot, j, T) = Get(heap, SrcRoot, j, T)
\* C10: for a trie T reached by Put and Remove, a key k (the empty key included)
\* and a value v, Get(k) on Put(T, k, v) is v, and Get(j) on Put(T, k, v) is
\* Get(j) on T for every other key j.
C10_PutThenGet == [][C10_Put]_vars

\* C10 witness: Put on "a" of a trie that binds "a" to another value and "ab"
\* below it: the new trie binds "a" to the new value and still binds "ab".
C10_Witness ==
    /\ tlast.op = "Put" /\ tlast.key = <<"a">> /\ tlast.value = <<"uint32_t", 2>>
    /\ Get(heap, roots[tlast.src], <<"a">>, "uint32_t") = <<"uint32_t", 1>>
    /\ Get(heap, roots[tlast.src], <<"a", "b">>, "uint64_t") = <<"uint64_t", 1>>
    /\ Get(heap, roots[Len(roots)], <<"a", "b">>, "uint64_t") = <<"uint64_t", 1>>
    /\ Get(heap, roots[Len(roots)], <<"a">>, "uint32_t") = <<"uint32_t", 2>>

\* The step is a Remove of key k on the trie the call before it, a Put of k,
\* returned.
RemoveAfterPut ==
    /\ tlast.op = "Put"
    /\ tlast'.op = "Remove"
    /\ tlast'.src = Len(roots)
    /\ tlast'.key = tlast.key

\* C11 as stated: Get(k) on Remove(Put(T, k, v), k) equals Get(k) on T, whether
\* or not T already binds k.
C11_RemoveRestores ==
    [][RemoveAfterPut =>
         \A T \in Types :
            Get(heap', DstRoot, tlast.key, T) = Get(heap, roots[tlast.src], tlast.key, T)]_vars

\* C11 amended: Get(k) on Remove(Put(T, k, v), k) is null for every type, so it
\* equals Get(k) on T exactly when T does not bind k; Remove does not restore
\* the binding T had.
C11_RemoveUnbinds ==
    [][RemoveAfterPut =>
         \A T \in Types :
            /\ Get(heap', DstRoot, tlast.key, T) = NullValue
            /\ Get(heap', DstRoot, tlast.key, T) = Get(heap, roots[tlast.src], tlast.key, T)
                  <=> Get(heap, roots[tlast.src], tlast.key, T) = NullValue]_vars

\* C11 witness: T binds k, Put(T, k, v) was made from it, and the Remove of k
\* on that trie returned a trie in which k is not bound.
C11_Witness ==
    /\ tlast.op = "Remove" /\ tlast.prev.op = "Put"
    /\ tlast.prev.key = tlast.key
    /\ tlast.src = Len(roots) - 1
    /\ \E T \in Types : Get(heap, roots[tlast.prev.src], tlast.key, T) # NullValue
    /\ \A T \in Types : Get(heap, roots[Len(roots)], tlast.key, T) = NullValue

\* Some type's Get finds a value at key.
Binds(h, root, key) == \E T \in Types : Get(h, root, key, T) # NullValue

\* Part of C12: a step leaves every node and every trie made so far as it was.
C12_NothingMutated ==
    /\ \A id \in DOMAIN heap : id \in DOMAIN heap' /\ heap'[id] = heap[id]
    /\ \A t \in DOMAIN roots :
         /\ roots'[t] = roots[t]
         /\ \A k \in Keys, T \in Types :
              Get(heap', roots'[t], k, T) = Get(heap, roots[t], k, T)
\* Part of C12: Remove of a key the trie does not bind returns the same root.
C12_RemoveAbsent ==
    tlast'.op = "Remove" /\ ~Binds(heap, SrcRoot, tlast'.key) => DstRoot = SrcRoot
\* Part of C12, its example: T1 = Put(empty, "a", 1), T2 = Put(T1, "ab", 2),
\* T3 = Put(T2, "ac", 3); at the end Get(T1, "a") = 1, Get(T2, "ac") = null,
\* Get(T3, "ab") = 2.
C12_Example ==
    LET T1 == Put(<<>>, 0, <<"a">>, <<"uint32_t", 1>>)
        T2 == Put(T1.heap, T1.root, <<"a", "b">>, <<"uint32_t", 2>>)
        T3 == Put(T2.heap, T2.root, <<"a", "c">>, <<"uint32_t", 3>>)
    IN  /\ Get(T3.heap, T1.root, <<"a">>, "uint32_t") = <<"uint32_t", 1>>
        /\ Get(T3.heap, T2.root, <<"a", "c">>, "uint32_t") = NullValue
        /\ Get(T3.heap, T3.root, <<"a", "b">>, "uint32_t") = <<"uint32_t", 2>>
\* C12: Put and Remove change no existing trie: every trie made earlier reads the
\* same at every key after any later Put or Remove, on it or on a trie derived
\* from it (the example included), and Remove of an absent key returns a trie
\* with the same root.
C12_TriesImmutable ==
    [][C12_NothingMutated /\ C12_RemoveAbsent /\ C12_Example]_vars

\* C12 witness: a Put of another value at a key the source trie binds, on a
\* trie derived from an earlier one; the source still reads its own value.
C12_Witness ==
    /\ tlast.op = "Put" /\ tlast.src > 1 /\ tlast.key # <<>>
    /\ Binds(heap, roots[tlast.src], tlast.key)
    /\ Get(heap, roots[tlast.src], tlast.key, tlast.value[1]) # tlast.value
    /\ Get(heap, roots[Len(roots)], tlast.key, tlast.value[1]) = tlast.value

\* C13: after any sequence of calls the page table and the frames agree: an
\* entry p -> f means frame f holds page p, every frame holding a page is the
\* target of an entry, and no two frames hold the same page.
C13_TableAgreesWithFrames ==
    ~fatal =>
      /\ \A p \in DOMAIN page_table : pages[page_table[p]].page_id = p
      /\ \A f \in Frames : pages[f].page_id # INVALID_PAGE_ID =>
             \E p \in DOMAIN page_table : page_table[p] = f
      /\ \A f, g \in Frames :
             f # g /\ pages[f].page_id # INVALID_PAGE_ID =>
                pages[f].page_id # pages[g].page_id

\* The free-list positions and the page-table entries that name frame f.
FreeSlots(f) == {i \in DOMAIN free_list : free_list[i] = f}
Mappings(f) == {p \in DOMAIN page_table : page_table[p] = f}

\* C14: after any sequence of calls every frame is on the free list exactly once
\* or the target of exactly one page-table entry, never both and never neither,
\* so the free-list entries and the page-table entries add up to the pool size.
C14_FreeOrMapped ==
    ~fatal =>
      /\ \A f \in Frames :
             Cardinality(FreeSlots(f)) + Cardinality(Mappings(f)) = 1
      /\ Len(free_list) + Cardinality(DOMAIN page_table) = NFrames

\* Part of C15: a thread about to read the page table or a frame's metadata
\* holds latch_.
C15_AccessUnderLatch ==
    \A t \in Threads :
        threads.pc[t] \in {"new_return", "hit_return"} => threads.latch = t
\* Part of C15: a call returns what its body computed under latch_, as in the
\* serial order of the bodies.
C15_ReturnsAsSerial ==
    ~fatal =>
      \A t \in Threads :
          threads.pc[t] = "idle" => threads.ret[t] = threads.serial[t]
\* C15: every public operation of the manager reads and writes the page table,
\* the free list and the frames' metadata only while holding latch_, so that
\* every concurrent execution is equivalent to a serial order of the calls.
C15_LatchedAndSerial == C15_AccessUnderLatch /\ C15_ReturnsAsSerial

\* The frames the replacer tracks.
TrackedFrames(r) == DOMAIN r.node_store

\* Part of C16: a RecordAccess step is fatal exactly when the frame is not
\* tracked and as many frames as the capacity are; on a tracked frame it
\* succeeds and appends the timestamp, dropping the oldest when K are held.
C16_Record ==
    last'.op = "RecordAccess" =>
      LET f == last'.victim IN
        /\ fatal' <=> (~Tracked(replacer, f)
                         /\ Cardinality(TrackedFrames(replacer)) = replacer.replacer_size)
        /\ Tracked(replacer, f) =>
             LET old == replacer.node_store[f].history
                 kept == IF Len(old) = replacer.k THEN Tail(old) ELSE old
             IN  /\ ~fatal'
                 /\ replacer'.node_store[f].history =
                       Append(kept, replacer.current_timestamp)
\* Part of C16: no more frames are tracked than the capacity.
C16_WithinCapacity ==
    Cardinality(TrackedFrames(replacer)) <= replacer.replacer_size
\* C16: RecordAccess is fatal exactly when the frame is not yet tracked and the
\* number of tracked frames equals the capacity num_frames; on a tracked frame
\* it always succeeds and appends the timestamp; the number of tracked frames
\* never exceeds num_frames.
C16_FatalOnlyWhenFull ==
    [][C16_Record]_vars /\ [](C16_WithinCapacity)

\* Part of C17: whichever frame NewPage or FetchPage would take now, the
\* RecordAccess it then makes does not find the replacer full.
C17_RoomForTheFrame ==
    ~fatal =>
      \A order \in ScanOrders :
          LET sel == SelectFrame(Bpm, order) IN
            sel.ok => ~ReplacerFull(sel.replacer, sel.frame)
\* Part of C17: a NewPage or FetchPage that issued no disk request returned.
C17_DiesOnlyOnDisk ==
    last'.op \in {"NewPage", "FetchPage"} /\ last'.io = <<>> => ~fatal'
\* C17: for any sequence of calls on a pool of N frames whose replacer has
\* capacity N, no RecordAccess made by NewPage or FetchPage reaches the
\* replacer's fatal 'Replacer is full'.
C17_ReplacerNeverFull ==
    [](C17_RoomForTheFrame) /\ [][C17_DiesOnlyOnDisk]_vars

\* C17 witness: with every frame tracked by the replacer, NewPage or FetchPage
\* evicted a page and recorded the access to its frame.
C17_Witness ==
    /\ last.op \in {"NewPage", "FetchPage"} /\ last.ret_ok
    /\ last.old_page_id # INVALID_PAGE_ID
    /\ TrackedFrames(replacer) = Frames
    /\ replacer.node_store[last.victim].history # <<>>
    /\ replacer.curr_size = NFrames - 1

\* Part of C18: Size() is the number of tracked frames whose flag is set.
C18_SizeCountsEvictable ==
    Size(replacer) = Cardinality(EvictableFrames(replacer))
\* Part of C18: SetEvictable with the flag's current value, and SetEvictable or
\* Remove on a frame that is not tracked, change neither tracked set nor Size().
C18_NoOps ==
    LET f == last'.victim
        noop == \/ /\ last'.op = "SetEvictable"
                   /\ \/ ~Tracked(replacer, f)
                      \/ replacer.node_store[f].is_evictable = last'.is_dirty
                \/ last'.op = "Remove" /\ ~Tracked(replacer, f)
    IN  noop => /\ TrackedFrames(replacer') = TrackedFrames(replacer)
                /\ Size(replacer') = Size(replacer)
\* C18: after any sequence of RecordAccess, SetEvictable, Remove and Evict calls
\* Size() equals the number of tracked frames whose evictable flag is true;
\* SetEvictable with the flag's current value, and SetEvictable or Remove on an
\* unknown frame, change neither the tracked set nor Size().
C18_SizeIsEvictableCount ==
    [](C18_SizeCountsEvictable) /\ [][C18_NoOps]_vars

\* C18 witness: SetEvictable was called on a frame that is not tracked while the
\* replacer tracked an evictable frame and one that is not evictable.
C18_Witness ==
    /\ last.op = "SetEvictable" /\ ~Tracked(replacer, last.victim)
    /\ Size(replacer) = 1
    /\ Cardinality(TrackedFrames(replacer)) = 2

\* The nodes of the trie with this root.
NodesOf(h, root) == {Walk(h, root, k, 1) : k \in Keys} \ {0}

\* Part of C19: in every trie made no plain node is a leaf, and a trie that
\* binds no key has a null root.
C19_Shape ==
    \A t \in DOMAIN roots :
        /\ \A n \in NodesOf(heap, roots[t]) :
              ~heap[n].is_value_node => heap[n].children # <<>>
        /\ (\A k \in Keys : ~Binds(heap, roots[t], k)) => roots[t] = 0
\* Part of C19: Remove of a valued node that has children puts a plain node with
\* those children in its place.
C19_RemoveInner ==
    LET old == Walk(heap, SrcRoot, tlast'.key, 1)
        new == Walk(heap', DstRoot, tlast'.key, 1)
    IN  (/\ tlast'.op = "Remove"
         /\ old # 0
         /\ heap[old].is_value_node
         /\ heap[old].children # <<>>)
        => /\ new # 0
           /\ heap'[new] = TrieNode(heap[old].children)
\* Part of C19, its example: Remove(Put(empty, "hello", v), "hello") has a null
\* root.
C19_Example ==
    LET hello == <<"h", "e", "l", "l", "o">>
        T == Put(<<>>, 0, hello, <<"uint32_t", 1>>)
    IN  TrieRemove(T.heap, T.root, hello).root = 0
\* C19: in every trie reached by Put and Remove no plain node is a leaf and a
\* trie that binds no key has a null root: Remove of a leaf key drops every
\* ancestor left without value and children (as in the example), and Remove of
\* a valued node with children replaces it by a plain node with those children.
C19_NoPlainLeaf ==
    [](C19_Shape) /\ [][C19_RemoveInner /\ C19_Example]_vars

\* C19 witness: Remove of a two-character key left nothing bound and returned
\* the trie with the null root.
C19_Witness ==
    /\ tlast.op = "Remove" /\ Len(tlast.key) = 2
    /\ Binds(heap, roots[tlast.src], tlast.key)
    /\ roots[tlast.src] # 0
    /\ roots[Len(roots)] = 0

\* Part of C20: the writes a NewPage or FetchPage step issues.
C20_Writeback ==
    last'.op \in {"NewPage", "FetchPage"} =>
      \A i \in DOMAIN last'.io :
          last'.io[i].is_write =>
            /\ free_list = <<>>
            /\ last'.io[i].page_id # INVALID_PAGE_ID
            /\ Resident(last'.io[i].page_id)
            /\ page_table[last'.io[i].page_id] = last'.victim
\* C20: every write NewPage or FetchPage issues as a writeback carries the
\* identifier of a page that was resident in the frame when the call began: a
\* frame taken from the free list, initially or after DeletePage of a dirty
\* page, causes no write, and no write is issued for INVALID_PAGE_ID.
C20_WritebackOfResidentPage == [][C20_Writeback]_vars

=============================================================================
